---------------------------- MODULE Spec2Model ----------------------------
(***************************************************************************)
(* Model of src/matrix.py (class Matrix, class Scalar) and of the inputs   *)
(* src/main.py builds.                                                     *)
(*                                                                         *)
(* Numbers.  Python ints and floats compare equal when they denote the     *)
(* same number (1 == 1.0), so a number is modelled by its value, an exact  *)
(* rational <<numerator, denominator>> in lowest terms with a positive     *)
(* denominator.  Floating-point rounding is not modelled.                  *)
(*                                                                         *)
(* Indices.  Python indexes from 0, TLA+ sequences from 1: the Python      *)
(* index i is the TLA+ index i + 1, so (-1) ** i becomes Sign(i - 1).      *)
(*                                                                         *)
(* Outcomes.  A call either returns a value or raises; a raise is the      *)
(* record Raise(exception class, message) and propagates through every     *)
(* caller, as no handler of matrix.py catches anything.                    *)
(***************************************************************************)
EXTENDS Integers, Sequences, FiniteSets, TLC

VARIABLES
    rows,      \* the argument of Matrix(rows)
    self,      \* the receiver (a Matrix), or None before construction
    other,     \* the second operand (a Matrix, a Scalar), or None
    modulo,    \* the modulo argument of __pow__
    op,        \* the operation that has run, "none" before it
    result     \* what the operation returned or raised

vars == <<rows, self, other, modulo, op, result>>

None == [type |-> "None"]

(***************************************************************************)
(* Bounds of the inputs.                                                   *)
(***************************************************************************)
MaxVal == 1       \* entries of the enumerated small matrices: -MaxVal..MaxVal
MaxRows == 3      \* rows of a raw argument of Matrix(rows)
MaxCols == 2      \* length of a row of a raw argument of Matrix(rows)
MaxPow == 3       \* integer exponents of __pow__: -MaxPow..MaxPow

(***************************************************************************)
(* Numbers                                                                 *)
(***************************************************************************)
AbsInt(n) == IF n < 0 THEN -n ELSE n

RECURSIVE GCD(_, _)
GCD(a, b) == IF b = 0 THEN a ELSE GCD(b, a % b)

Norm(n, d) ==
    LET g == GCD(AbsInt(n), AbsInt(d))
        s == IF d < 0 THEN -1 ELSE 1
    IN  <<(s * n) \div g, (s * d) \div g>>

Num(n) == <<n, 1>>

float_add(a, b) == Norm(a[1] * b[2] + b[1] * a[2], a[2] * b[2])
float_sub(a, b) == Norm(a[1] * b[2] - b[1] * a[2], a[2] * b[2])
float_mul(a, b) == Norm(a[1] * b[1], a[2] * b[2])
\* float.__truediv__ raises ZeroDivisionError on a zero divisor; the callers
\* below test for it before they use the quotient.
float_truediv(a, b) == Norm(a[1] * b[2], a[2] * b[1])
is_integer(a) == a[2] = 1

\* (-1) ** k for k >= 0
Sign(k) == IF k % 2 = 0 THEN Num(1) ELSE Num(-1)

\* the builtin sum() of a list of numbers
RECURSIVE sum(_)
sum(s) == IF s = <<>> THEN Num(0) ELSE float_add(Head(s), sum(Tail(s)))

(***************************************************************************)
(* Values and outcomes                                                     *)
(***************************************************************************)
Raise(exc, msg) == [type |-> "raise", exc |-> exc, msg |-> msg]
Number(v) == [type |-> "number", value |-> v]
Scalar(v) == [type |-> "Scalar", value |-> v]

IsRaise(x) == x.type = "raise"
IsMatrix(x) == x.type = "Matrix"

\* set_rows whose loop over the rows starts one row late
set_rows_late(rs) ==
    IF Len(rs) = 0 THEN Raise("ValueError", "matrix cannot be empty")
    ELSE IF Len(rs[1]) = 0 THEN Raise("ValueError", "matrix cannot be empty")
    ELSE IF \E i \in 3..Len(rs) : Len(rs[i]) # Len(rs[1])
         THEN Raise("ValueError", "all rows must be the same length")
    ELSE [type |-> "Matrix", count_row |-> Len(rs), count_col |-> Len(rs[1]),
          rows |-> rs]

\* Matrix.__set_rows: validates the rows and sets the instance variables
set_rows(rs) ==
    IF Len(rs) = 0 THEN Raise("ValueError", "matrix cannot be empty")
    ELSE IF Len(rs[1]) = 0 THEN Raise("ValueError", "matrix cannot be empty")
    ELSE IF \E i \in 2..Len(rs) : Len(rs[i]) # Len(rs[1])
         THEN Raise("ValueError", "all rows must be the same length")
    ELSE [type |-> "Matrix", count_row |-> Len(rs), count_col |-> Len(rs[1]),
          rows |-> rs]


\* Matrix.__init__
Matrix(rs) == set_rows(rs)

\* a list without its element at the (1-based) index k
Without(s, k) == SubSeq(s, 1, k - 1) \o SubSeq(s, k + 1, Len(s))

\* A list comprehension building a list of lists from the outcomes cells[i][j]
\* of its elements: the first element that raises, in evaluation order, ends it.
Comprehension(cells) ==
    LET bad == {p \in (1..Len(cells)) \X (1..Len(cells[1])) : IsRaise(cells[p[1]][p[2]])}
    IN  IF bad # {}
        THEN LET p == CHOOSE q \in bad : \A r \in bad :
                          q[1] < r[1] \/ (q[1] = r[1] /\ q[2] <= r[2])
             IN  cells[p[1]][p[2]]
        ELSE [type |-> "list",
              value |-> [i \in 1..Len(cells) |->
                           [j \in 1..Len(cells[1]) |-> cells[i][j].value]]]

(***************************************************************************)
(* Elementwise operations                                                  *)
(***************************************************************************)
\* Matrix.__validate_size
validate_size(m, o) ==
    IF m.count_row # o.count_row
    THEN Raise("ValueError", "row count must be the same")
    ELSE IF m.count_col # o.count_col
    THEN Raise("ValueError", "col count must be the same")
    ELSE None

\* operation(float(a), float(b)) for the four float operations passed around
apply(operation, a, b) ==
    CASE operation = "add" -> Number(float_add(a, b))
      [] operation = "sub" -> Number(float_sub(a, b))
      [] operation = "mul" -> Number(float_mul(a, b))
      [] operation = "truediv" ->
            IF b[1] = 0
            THEN Raise("ZeroDivisionError", "float division by zero")
            ELSE Number(float_truediv(a, b))

\* Matrix.__calculate_each_element
calculate_each_element(m, o, operation) ==
    LET Cell(i, j) ==
            IF i > Len(o.rows) \/ j > Len(o.rows[i])
            THEN Raise("IndexError", "list index out of range")
            ELSE apply(operation, m.rows[i][j], o.rows[i][j])
        rs == Comprehension([i \in 1..m.count_row |-> [j \in 1..m.count_col |-> Cell(i, j)]])
    IN  IF IsRaise(rs) THEN rs ELSE Matrix(rs.value)

\* Matrix.__add__
Matrix_add(m, o) ==
    LET v == validate_size(m, o)
    IN  IF IsRaise(v) THEN v ELSE calculate_each_element(m, o, "add")

\* Matrix.__sub__
Matrix_sub(m, o) ==
    LET v == validate_size(m, o)
    IN  IF IsRaise(v) THEN v ELSE calculate_each_element(m, o, "sub")

\* __matmul__ passing float.__add__ where float.__mul__ belongs
Matrix_matmul_add(m, o) ==
    IF m.count_col # o.count_row
    THEN Raise("ValueError",
               "the col count in the first matrix must be equal to the row count in the second matrix")
    ELSE
        LET Cell(i, j) ==
                LET left == Matrix(<<m.rows[i]>>)
                    right == Matrix(<<[k \in 1..o.count_row |-> o.rows[k][j]]>>)
                    col == IF IsRaise(left) THEN left
                           ELSE IF IsRaise(right) THEN right
                           ELSE calculate_each_element(left, right, "add")
                IN  IF IsRaise(col) THEN col ELSE Number(sum(col.rows[1]))
            rs == Comprehension([i \in 1..m.count_row |-> [j \in 1..o.count_col |-> Cell(i, j)]])
        IN  IF IsRaise(rs) THEN rs ELSE Matrix(rs.value)

\* Matrix.__matmul__
Matrix_matmul(m, o) ==
    IF m.count_col # o.count_row
    THEN Raise("ValueError",
               "the col count in the first matrix must be equal to the row count in the second matrix")
    ELSE
        LET Cell(i, j) ==
                LET left == Matrix(<<m.rows[i]>>)
                    right == Matrix(<<[k \in 1..o.count_row |-> o.rows[k][j]]>>)
                    col == IF IsRaise(left) THEN left
                           ELSE IF IsRaise(right) THEN right
                           ELSE calculate_each_element(left, right, "mul")
                IN  IF IsRaise(col) THEN col ELSE Number(sum(col.rows[1]))
            rs == Comprehension([i \in 1..m.count_row |-> [j \in 1..o.count_col |-> Cell(i, j)]])
        IN  IF IsRaise(rs) THEN rs ELSE Matrix(rs.value)

\* the matrix a Scalar is spread into: [[other.value for _ in cols] for _ in rows]
broadcast(m, v) == [i \in 1..m.count_row |-> [j \in 1..m.count_col |-> v]]

\* Matrix.__mul__
Matrix_mul(m, o) ==
    IF o.type = "Matrix"
    THEN Raise("TypeError", "matrix multiplication via * is not supported (use @ instead)")
    ELSE IF o.type # "Scalar"
    THEN Raise("AttributeError", "object has no attribute 'value'")
    ELSE LET scalar == Matrix(broadcast(m, o.value))
         IN  IF IsRaise(scalar) THEN scalar
             ELSE calculate_each_element(m, scalar, "mul")

\* __rmul__ refusing the reflected call
Matrix_rmul_refused(m, o) == Raise("TypeError", "unsupported operand type(s) for *")

\* Matrix.__rmul__
Matrix_rmul(m, o) == Matrix_mul(m, o)

\* Scalar is a float: float.__mul__ with an operand that is no number
NotImplemented == [type |-> "NotImplemented"]
Scalar_mul(s, o) ==
    IF o.type \in {"Scalar", "number"} THEN Number(float_mul(s.value, o.value))
    ELSE NotImplemented

\* left * right as Python evaluates it: the left operand's __mul__, then, when
\* that is missing or returns NotImplemented, the right operand's __rmul__
star(left, right) ==
    LET first == IF left.type = "Matrix" THEN Matrix_mul(left, right)
                 ELSE IF left.type = "Scalar" THEN Scalar_mul(left, right)
                 ELSE NotImplemented
    IN  IF first # NotImplemented THEN first
        ELSE IF right.type = "Matrix" THEN Matrix_rmul(right, left)
        ELSE Raise("TypeError", "unsupported operand type(s) for *")


(***************************************************************************)
(* Determinant, inverse, division, power                                   *)
(***************************************************************************)
\* __abs__'s minor with the last column left out instead of the first
abs_minor_last(m, i) ==
    [r \in 1..(m.count_row - 1) |->
        SubSeq(Without(m.rows, i)[r], 1, m.count_col - 1)]

\* the rows of __abs__'s minor: row i and the first column left out
abs_minor(m, i) == [r \in 1..(m.count_row - 1) |-> Tail(Without(m.rows, i)[r])]

\* Matrix.__abs__: the determinant, expanded along the first column
RECURSIVE Matrix_abs(_)

\* __abs__ without the alternating sign
Matrix_abs_unsigned(m) ==
    IF m.count_row # m.count_col
    THEN Raise("AttributeError", "determinant supports only square matrix")
    ELSE IF m.count_row = 1 THEN Number(m.rows[1][1])
    ELSE
        LET Term(i, j) ==
                LET sub == Matrix(abs_minor(m, i))
                    d == IF IsRaise(sub) THEN sub ELSE Matrix_abs(sub)
                IN  IF IsRaise(d) THEN d
                    ELSE Number(float_mul(m.rows[i][1], d.value))
            terms == Comprehension([i \in 1..m.count_row |-> [j \in 1..1 |-> Term(i, j)]])
        IN  IF IsRaise(terms) THEN terms
            ELSE Number(sum([i \in 1..m.count_row |-> terms.value[i][1]]))

Matrix_abs(m) ==
    IF m.count_row # m.count_col
    THEN Raise("AttributeError", "determinant supports only square matrix")
    ELSE IF m.count_row = 1 THEN Number(m.rows[1][1])
    ELSE
        LET Term(i, j) ==
                LET sub == Matrix(abs_minor(m, i))
                    d == IF IsRaise(sub) THEN sub ELSE Matrix_abs(sub)
                IN  IF IsRaise(d) THEN d
                    ELSE Number(float_mul(float_mul(Sign(i - 1), m.rows[i][1]), d.value))
            terms == Comprehension([i \in 1..m.count_row |-> [j \in 1..1 |-> Term(i, j)]])
        IN  IF IsRaise(terms) THEN terms
            ELSE Number(sum([i \in 1..m.count_row |-> terms.value[i][1]]))

\* the rows of __get_inverse_matrix's minor for the element (i, j) of the
\* result: row j and column i left out (the indices are swapped: transposed)
inverse_minor(m, i, j) ==
    [r \in 1..(m.count_row - 1) |-> Without(Without(m.rows, j)[r], i)]

\* __get_inverse_matrix without the test of the determinant
get_inverse_matrix_untested(m) ==
    IF m.count_row # m.count_col
    THEN Raise("AttributeError", "determinant supports only square matrix")
    ELSE
        LET det == Matrix_abs(m)
            Cell(i, j) ==
                LET sub == Matrix(inverse_minor(m, i, j))
                    d == IF IsRaise(sub) THEN sub ELSE Matrix_abs(sub)
                IN  IF IsRaise(d) THEN d
                    ELSE Number(float_mul(Sign((i - 1) + (j - 1)), d.value))
            rs == Comprehension([i \in 1..m.count_row |-> [j \in 1..m.count_col |-> Cell(i, j)]])
            adj == IF IsRaise(rs) THEN rs ELSE Matrix(rs.value)
        IN  IF IsRaise(det) THEN det
            ELSE IF IsRaise(adj) THEN adj
            ELSE calculate_each_element(adj, Matrix(broadcast(adj, det.value)), "truediv")

\* Matrix.__get_inverse_matrix
get_inverse_matrix(m) ==
    IF m.count_row # m.count_col
    THEN Raise("AttributeError", "determinant supports only square matrix")
    ELSE
        LET v == validate_size(m, m)
            det == Matrix_abs(m)
            Cell(i, j) ==
                LET sub == Matrix(inverse_minor(m, i, j))
                    d == IF IsRaise(sub) THEN sub ELSE Matrix_abs(sub)
                IN  IF IsRaise(d) THEN d
                    ELSE Number(float_mul(Sign((i - 1) + (j - 1)), d.value))
            rs == Comprehension([i \in 1..m.count_row |-> [j \in 1..m.count_col |-> Cell(i, j)]])
            adj == IF IsRaise(rs) THEN rs ELSE Matrix(rs.value)
        IN  IF IsRaise(v) THEN v
            ELSE IF IsRaise(det) THEN det
            ELSE IF det.value = Num(0)
            THEN Raise("ZeroDivisionError", "determinant is 0")
            ELSE IF IsRaise(adj) THEN adj
            ELSE calculate_each_element(adj, Matrix(broadcast(adj, det.value)), "truediv")

\* __truediv__ passing float.__mul__ where float.__truediv__ belongs
Matrix_truediv_mul(m, o) ==
    IF o.type = "Scalar"
    THEN calculate_each_element(m, Matrix(broadcast(m, o.value)), "mul")
    ELSE IF o.type = "Matrix"
    THEN LET inv == get_inverse_matrix(o)
         IN  IF IsRaise(inv) THEN inv ELSE Matrix_matmul(m, inv)
    ELSE Raise("TypeError", "matrix cannot be divided the given object")

\* Matrix.__truediv__
Matrix_truediv(m, o) ==
    IF o.type = "Scalar"
    THEN calculate_each_element(m, Matrix(broadcast(m, o.value)), "truediv")
    ELSE IF o.type = "Matrix"
    THEN LET inv == get_inverse_matrix(o)
         IN  IF IsRaise(inv) THEN inv ELSE Matrix_matmul(m, inv)
    ELSE Raise("TypeError", "matrix cannot be divided the given object")

\* Matrix.__pow__
RECURSIVE Matrix_pow(_, _, _)

\* __pow__ whose step for power >= 2 leaves out the "@ self"
Matrix_pow_unmultiplied(m, power, mod) ==
    IF mod # None THEN Raise("ValueError", "modulo is not supported")
    ELSE IF power.type # "Scalar" THEN Raise("TypeError", "power supports Scalar only")
    ELSE IF ~is_integer(power.value)
    THEN Raise("ValueError", "power supports only integer")
    ELSE IF power.value = Num(0)
    THEN IF m.count_row # m.count_col
         THEN Raise("ValueError", "power 0 supports only square matrix")
         ELSE Matrix([i \in 1..m.count_row |->
                        [j \in 1..m.count_col |-> IF j = i THEN Num(1) ELSE Num(0)]])
    ELSE IF power.value = Num(1) THEN m
    ELSE IF power.value[1] >= 2
    THEN Matrix_pow(m, Scalar(float_sub(power.value, Num(1))), None)
    ELSE LET inv == get_inverse_matrix(m)
         IN  IF IsRaise(inv) THEN inv
             ELSE Matrix_pow(inv, Scalar(float_sub(Num(0), power.value)), None)

Matrix_pow(m, power, mod) ==
    IF mod # None THEN Raise("ValueError", "modulo is not supported")
    ELSE IF power.type # "Scalar" THEN Raise("TypeError", "power supports Scalar only")
    ELSE IF ~is_integer(power.value)
    THEN Raise("ValueError", "power supports only integer")
    ELSE IF power.value = Num(0)
    THEN IF m.count_row # m.count_col
         THEN Raise("ValueError", "power 0 supports only square matrix")
         ELSE Matrix([i \in 1..m.count_row |->
                        [j \in 1..m.count_col |-> IF j = i THEN Num(1) ELSE Num(0)]])
    ELSE IF power.value = Num(1) THEN m
    ELSE IF power.value[1] >= 2
    THEN LET prev == Matrix_pow(m, Scalar(float_sub(power.value, Num(1))), None)
         IN  IF IsRaise(prev) THEN prev ELSE Matrix_matmul(prev, m)
    ELSE LET inv == get_inverse_matrix(m)
         IN  IF IsRaise(inv) THEN inv
             ELSE Matrix_pow(inv, Scalar(float_sub(Num(0), power.value)), None)


(***************************************************************************)
(* Inputs                                                                  *)
(***************************************************************************)
Ints(S) == {Num(v) : v \in S}
Grids(r, c, V) == [1..r -> [1..c -> V]]

\* m1 and m2 of main.py
m1 == <<<<Num(1), Num(0), Num(0)>>, <<Num(0), Num(1), Num(0)>>, <<Num(0), Num(0), Num(1)>>>>
m2 == <<<<Num(1), Num(1), Num(-1)>>, <<Num(-2), Num(0), Num(1)>>, <<Num(0), Num(2), Num(1)>>>>

\* further matrices with entries beyond the enumerated ranges
Named == {m1, m2,
          <<<<Num(1), Num(2)>>, <<Num(3), Num(4)>>>>,
          <<<<Num(1), Num(2)>>, <<Num(2), Num(4)>>>>,
          <<<<Num(0), Num(1)>>, <<Num(1), Num(0)>>>>,
          <<<<Num(2), Num(0)>>, <<Num(0), Num(2)>>>>,
          <<<<Num(2)>>>>,
          <<<<Num(1), Num(2), Num(3)>>>>}

\* every matrix of at most 2 x 2 with entries in -MaxVal..MaxVal
Small == UNION {Grids(r, c, Ints(-MaxVal..MaxVal)) : r \in 1..2, c \in 1..2}

\* every matrix of at most 2 x 2 with entries in -1..1
SmallUnit == UNION {Grids(r, c, Ints(-1..1)) : r \in 1..2, c \in 1..2}

\* every matrix with a side of 3 and entries in -1..1
Wide == UNION {Grids(sh[1], sh[2], Ints(-1..1)) :
                 sh \in {<<1, 3>>, <<3, 1>>, <<2, 3>>, <<3, 2>>, <<3, 3>>}}

\* arguments of Matrix(rows): lists of lists, empty and jagged ones included
SeqsUpTo(S, n) == UNION {[1..k -> S] : k \in 0..n}
RawRows == SeqsUpTo(SeqsUpTo(Ints(0..1), MaxCols), MaxRows)

Scalars == {Scalar(Num(v)) : v \in (-MaxVal - 1)..(MaxVal + 1)} \cup {Scalar(<<1, 2>>)}
Powers == {Scalar(Num(p)) : p \in -MaxPow..MaxPow}
              \cup {Scalar(<<1, 2>>), Scalar(<<-3, 2>>), Number(Num(2))}

(***************************************************************************)
(* The calls.  Each specification starts from one receiver and makes one   *)
(* call on it; op records which, other and modulo its arguments, result    *)
(* what it returned or raised.                                             *)
(***************************************************************************)
Start(inputs) ==
    /\ rows \in inputs
    /\ self = Matrix(rows)
    /\ other = None
    /\ modulo = None
    /\ op = "none"
    /\ result = None

\* Matrix(rows)
InitConstruct ==
    /\ rows \in RawRows
    /\ self = None
    /\ other = None
    /\ modulo = None
    /\ op = "none"
    /\ result = None

New ==
    /\ op = "none"
    /\ op' = "Matrix"
    /\ result' = Matrix(rows)
    /\ self' = IF IsMatrix(result') THEN result' ELSE None
    /\ UNCHANGED <<rows, other, modulo>>

\* abs(m)
Abs ==
    /\ op = "none"
    /\ op' = "abs"
    /\ result' = Matrix_abs(self)
    /\ UNCHANGED <<rows, self, other, modulo>>

\* the inverse of m, as m / b and m ** p take it of their operand
Inverse ==
    /\ op = "none"
    /\ op' = "inverse"
    /\ result' = get_inverse_matrix(self)
    /\ UNCHANGED <<rows, self, other, modulo>>

\* m ** p, also pow(m, p, modulo)
Pow ==
    \E p \in Powers, md \in {None, Number(Num(2))} :
        /\ op = "none"
        /\ op' = "pow"
        /\ other' = p
        /\ modulo' = md
        /\ result' = Matrix_pow(self, p, md)
        /\ UNCHANGED <<rows, self>>

Operands == {Matrix(rs) : rs \in SmallUnit \cup Named}

\* m + b
Add ==
    \E o \in Operands :
        /\ op = "none"
        /\ op' = "add"
        /\ other' = o
        /\ result' = Matrix_add(self, o)
        /\ UNCHANGED <<rows, self, modulo>>

\* m - b
Sub ==
    \E o \in Operands :
        /\ op = "none"
        /\ op' = "sub"
        /\ other' = o
        /\ result' = Matrix_sub(self, o)
        /\ UNCHANGED <<rows, self, modulo>>

\* m @ b
MatMul ==
    \E o \in Operands :
        /\ op = "none"
        /\ op' = "matmul"
        /\ other' = o
        /\ result' = Matrix_matmul(self, o)
        /\ UNCHANGED <<rows, self, modulo>>

\* b @ m
RMatMul ==
    \E o \in Operands :
        /\ op = "none"
        /\ op' = "rmatmul"
        /\ other' = o
        /\ result' = Matrix_matmul(o, self)
        /\ UNCHANGED <<rows, self, modulo>>

Divisors == Scalars \cup {Matrix(rs) : rs \in Named} \cup {Number(Num(2))}

\* m * s
Mul ==
    \E o \in Divisors :
        /\ op = "none"
        /\ op' = "mul"
        /\ other' = o
        /\ result' = star(self, o)
        /\ UNCHANGED <<rows, self, modulo>>

\* s * m
RMul ==
    \E o \in Divisors :
        /\ op = "none"
        /\ op' = "rmul"
        /\ other' = o
        /\ result' = star(o, self)
        /\ UNCHANGED <<rows, self, modulo>>

\* m / s and m / b
TrueDiv ==
    \E o \in Divisors :
        /\ op = "none"
        /\ op' = "truediv"
        /\ other' = o
        /\ result' = Matrix_truediv(self, o)
        /\ UNCHANGED <<rows, self, modulo>>

SpecConstruct == InitConstruct /\ [][New]_vars

InitUnary == Start(Small \cup Wide \cup Named)
NextUnary == Abs \/ Inverse
SpecUnary == InitUnary /\ [][NextUnary]_vars

Init == Start(Small \cup Named)

SpecPow == Init /\ [][Pow]_vars

NextMatMul == MatMul \/ RMatMul
SpecMatMul == Init /\ [][NextMatMul]_vars

NextScalar == Mul \/ RMul \/ TrueDiv
SpecScalar == Init /\ [][NextScalar]_vars

\* every call on a constructed matrix
Next == Abs \/ Inverse \/ Pow \/ Add \/ Sub \/ MatMul \/ RMatMul \/ Mul \/ RMul \/ TrueDiv
Spec == Init /\ [][Next]_vars

(***************************************************************************)
(* Reference definitions the properties compare the code with              *)
(***************************************************************************)
IdentityRows(n) == [i \in 1..n |-> [j \in 1..n |-> IF i = j THEN Num(1) ELSE Num(0)]]

IsSquare(m) == m.count_row = m.count_col

RECURSIVE SumSeq(_)
SumSeq(s) == IF Len(s) = 0 THEN Num(0) ELSE float_add(s[1], SumSeq(Tail(s)))

RECURSIVE ProdSeq(_)
ProdSeq(s) == IF Len(s) = 0 THEN Num(1) ELSE float_mul(s[1], ProdSeq(Tail(s)))

\* the sum of the second components of a set of pairs
RECURSIVE SumPairs(_)
SumPairs(S) ==
    IF S = {} THEN Num(0)
    ELSE LET x == CHOOSE y \in S : TRUE
         IN  float_add(x[2], SumPairs(S \ {x}))

\* the Leibniz determinant: the sum over the permutations p of sgn(p) * prod rs[i][p[i]]
Leibniz(rs) ==
    LET n == Len(rs)
        Inversions(p) == Cardinality({q \in (1..n) \X (1..n) : q[1] < q[2] /\ p[q[1]] > p[q[2]]})
        Term(p) == float_mul(Sign(Inversions(p)), ProdSeq([i \in 1..n |-> rs[i][p[i]]]))
    IN  SumPairs({<<p, Term(p)>> : p \in Permutations(1..n)})

\* the minor: row r and column c left out
MinorRows(rs, r, c) ==
    LET n == Len(rs)
    IN  [i \in 1..(n - 1) |-> [j \in 1..(n - 1) |->
            rs[IF i < r THEN i ELSE i + 1][IF j < c THEN j ELSE j + 1]]]

\* the cofactor expansion along the first column
CofactorFirstColumn(rs) ==
    SumSeq([i \in 1..Len(rs) |->
        float_mul(float_mul(Sign(i - 1), rs[i][1]), Leibniz(MinorRows(rs, i, 1)))])

\* sum over k of a[i][k] * b[k][j]
Dot(a, b, i, j) == SumSeq([k \in 1..Len(b) |-> float_mul(a[i][k], b[k][j])])

\* the product a b of two matrices' rows
ProductRows(a, b) == [i \in 1..Len(a) |-> [j \in 1..Len(b[1]) |-> Dot(a, b, i, j)]]

\* a multiplied k >= 1 times
RECURSIVE PowerRows(_, _)
PowerRows(a, k) == IF k = 1 THEN a ELSE ProductRows(a, PowerRows(a, k - 1))


(***************************************************************************)
(* Properties                                                              *)
(***************************************************************************)

\* C1: for every non-singular square matrix m of any size n >= 1, the inverse
\* of m is a Matrix and m @ inverse(m) is the n x n identity matrix.
C1_InverseTimesSelfIsIdentity ==
    (op = "inverse" /\ IsSquare(self) /\ Leibniz(self.rows) # Num(0)) =>
        /\ IsMatrix(result)
        /\ Matrix_matmul(self, result) = Matrix(IdentityRows(self.count_row))

\* The same from size 2 on: what the code does satisfy.
InverseTimesSelfIsIdentityFrom2 ==
    (op = "inverse" /\ IsSquare(self) /\ self.count_row >= 2
        /\ Leibniz(self.rows) # Num(0)) =>
        /\ IsMatrix(result)
        /\ Matrix_matmul(self, result) = Matrix(IdentityRows(self.count_row))
        /\ Matrix_matmul(result, self) = Matrix(IdentityRows(self.count_row))

\* C2: abs(m) of a square m is the cofactor expansion along the first column,
\* equal to the Leibniz determinant; of [[v]] it is v, of an identity matrix 1;
\* of a non-square m it raises the not-square error (AttributeError) and
\* returns no number.
C2_Determinant ==
    op = "abs" =>
        IF IsSquare(self)
        THEN /\ result = Number(Leibniz(self.rows))
             /\ self.count_row >= 2 => result.value = CofactorFirstColumn(self.rows)
             /\ self.count_row = 1 => result.value = self.rows[1][1]
             /\ self.rows = IdentityRows(self.count_row) => result.value = Num(1)
        ELSE result = Raise("AttributeError", "determinant supports only square matrix")

C2_Witness ==
    /\ op = "abs"
    /\ self.count_row = 3
    /\ self.count_col = 3
    /\ result = Number(Num(-4))

\* C3 as stated: the determinant of [[1,1,-1],[-2,0,1],[0,2,1]] is 3.
C3_DeterminantIs3 ==
    (op = "abs" /\ rows = m2) => result = Number(Num(3))

\* C3, amended: the determinant of [[1,1,-1],[-2,0,1],[0,2,1]] is 4.
C3_DeterminantIs4 ==
    (op = "abs" /\ rows = m2) => result = Number(Num(4))

C3_Witness ==
    /\ op = "abs"
    /\ rows = m2
    /\ result.type = "number"

\* C4: the inverse of a non-square m raises the not-square error
\* (AttributeError); of a square m with determinant 0 it raises the singular
\* error (ZeroDivisionError "determinant is 0"), raised by the test of the
\* determinant and not by a division ("float division by zero"), and no
\* Matrix is returned.
C4_InverseErrors ==
    op = "inverse" =>
        /\ ~IsSquare(self) =>
              result = Raise("AttributeError", "determinant supports only square matrix")
        /\ (IsSquare(self) /\ Leibniz(self.rows) = Num(0)) =>
              result = Raise("ZeroDivisionError", "determinant is 0")

C4_Witness ==
    /\ op = "inverse"
    /\ rows = <<<<Num(1), Num(2)>>, <<Num(2), Num(4)>>>>
    /\ result = Raise("ZeroDivisionError", "determinant is 0")

\* C5: for a square m, m ** 0 is the identity of m's size, m ** 1 is m,
\* m ** -1 is the inverse of m (the same outcome, a raise included); for
\* p >= 2, m ** p is (m ** (p-1)) @ m, m multiplied p times; for p < 0,
\* m ** p is inverse(m) ** (-p).
C5_Power ==
    (op = "pow" /\ modulo = None /\ other.type = "Scalar" /\ is_integer(other.value)
        /\ IsSquare(self)) =>
        LET p == other.value[1]
            inv == get_inverse_matrix(self)
        IN  /\ p = 0 => result = Matrix(IdentityRows(self.count_row))
            /\ p = 1 => result = self
            /\ p = -1 => result = inv
            /\ p >= 2 =>
                  /\ result = Matrix_matmul(Matrix_pow(self, Scalar(Num(p - 1)), None), self)
                  /\ result = Matrix(PowerRows(self.rows, p))
            /\ p < 0 =>
                  IF IsRaise(inv) THEN result = inv
                  ELSE /\ result = Matrix_pow(inv, Scalar(Num(-p)), None)
                       /\ result = Matrix(PowerRows(inv.rows, -p))

C5_Witness ==
    /\ op = "pow"
    /\ modulo = None
    /\ other = Scalar(Num(-2))
    /\ rows = <<<<Num(1), Num(2)>>, <<Num(3), Num(4)>>>>
    /\ result = Matrix(<<<<<<11, 2>>, <<-5, 2>>>>, <<<<-15, 4>>, <<7, 4>>>>>>)

\* C6: m ** p with a non-integer p raises the non-integer-power error for
\* every m, and m ** 0 of a non-square m raises the error kind abs(m) raises
\* for a non-square m, a kind other than that of the shape errors
\* (what Matrix(rows) raises) and of the non-integer-power error.
C6_PowerErrors ==
    (op = "pow" /\ modulo = None /\ other.type = "Scalar") =>
        /\ ~is_integer(other.value) =>
              result = Raise("ValueError", "power supports only integer")
        /\ (other.value = Num(0) /\ ~IsSquare(self)) =>
              /\ IsRaise(result)
              /\ result.exc = Matrix_abs(self).exc
              /\ result.exc = get_inverse_matrix(self).exc
              /\ result.exc # Matrix(<<>>).exc
              /\ result.exc # Matrix_pow(self, Scalar(<<1, 2>>), None).exc

\* The first half of C6 alone: what the code does satisfy.
NonIntegerPowerRaises ==
    (op = "pow" /\ modulo = None /\ other.type = "Scalar" /\ ~is_integer(other.value)) =>
        result = Raise("ValueError", "power supports only integer")

\* C7: Matrix(rows) succeeds iff rows has at least one row and all rows share
\* one non-zero length; otherwise it raises the shape error (ValueError); on
\* success count_row = len(rows), count_col = len(rows[0]).
C7_Construct ==
    op = "Matrix" =>
        LET valid == /\ Len(rows) >= 1
                     /\ \E n \in 1..(MaxCols + 1) : \A i \in 1..Len(rows) : Len(rows[i]) = n
        IN  /\ IsMatrix(result) <=> valid
            /\ ~valid => (IsRaise(result) /\ result.exc = "ValueError")
            /\ valid => /\ result.count_row = Len(rows)
                        /\ result.count_col = Len(rows[1])
                        /\ result.rows = rows
                        /\ self = result

C7_Witness ==
    /\ op = "Matrix"
    /\ Len(rows) = 3
    /\ IsMatrix(result)
    /\ result.count_col = 2

\* C8: a @ b is defined iff a.count_col = b.count_row, else it raises the
\* shape error (ValueError); the result is a.count_row x b.count_col with
\* cell [i][j] = sum over k of a[i][k] * b[k][j]; the identity matrix of
\* matching size is a two-sided identity.
C8_MatMul ==
    op \in {"matmul", "rmatmul"} =>
        LET a == IF op = "matmul" THEN self ELSE other
            b == IF op = "matmul" THEN other ELSE self
        IN  IF a.count_col # b.count_row
            THEN IsRaise(result) /\ result.exc = "ValueError"
            ELSE /\ IsMatrix(result)
                 /\ result.count_row = a.count_row
                 /\ result.count_col = b.count_col
                 /\ \A i \in 1..a.count_row : \A j \in 1..b.count_col :
                        result.rows[i][j] = Dot(a.rows, b.rows, i, j)
                 /\ b.rows = IdentityRows(a.count_col) => result = a
                 /\ a.rows = IdentityRows(b.count_row) => result = b

C8_Witness ==
    /\ op = "matmul"
    /\ rows = <<<<Num(1), Num(2)>>, <<Num(3), Num(4)>>>>
    /\ other = Matrix(<<<<Num(0), Num(1)>>, <<Num(1), Num(0)>>>>)
    /\ result = Matrix(<<<<Num(2), Num(1)>>, <<Num(4), Num(3)>>>>)

\* C9: m / s with a Scalar s is a Matrix of m's shape with every cell divided
\* by s.value when s.value # 0, and raises the division error
\* (ZeroDivisionError) for every m when s.value = 0.
C9_ScalarDivide ==
    (op = "truediv" /\ other.type = "Scalar") =>
        IF other.value = Num(0)
        THEN IsRaise(result) /\ result.exc = "ZeroDivisionError"
        ELSE /\ IsMatrix(result)
             /\ result.count_row = self.count_row
             /\ result.count_col = self.count_col
             /\ \A i \in 1..self.count_row : \A j \in 1..self.count_col :
                    float_mul(result.rows[i][j], other.value) = self.rows[i][j]

C9_Witness ==
    /\ op = "truediv"
    /\ other = Scalar(Num(0))
    /\ self.count_row = 2
    /\ self.count_col = 2
    /\ result = Raise("ZeroDivisionError", "float division by zero")

\* C10: m * s and s * m both succeed and give the same Matrix, of m's shape
\* with every cell multiplied by s.value.
C10_ScalarMultiplyCommutes ==
    (op \in {"mul", "rmul"} /\ other.type = "Scalar") =>
        /\ IsMatrix(result)
        /\ result.count_row = self.count_row
        /\ result.count_col = self.count_col
        /\ \A i \in 1..self.count_row : \A j \in 1..self.count_col :
               result.rows[i][j] = float_mul(self.rows[i][j], other.value)
        /\ result = star(self, other)
        /\ result = star(other, self)

C10_Witness ==
    /\ op = "rmul"
    /\ rows = m2
    /\ other = Scalar(Num(2))
    /\ result = Matrix(<<<<Num(2), Num(2), Num(-2)>>, <<Num(-4), Num(0), Num(2)>>,
                         <<Num(0), Num(4), Num(2)>>>>)

=============================================================================
